---- MODULE Spec2Model ----
(***************************************************************************)
(* Model of the instrument-communication layer of SpectrumAnalyzerApp      *)
(* (src/SpectrumAnalyzer.py): VISA session lifecycle, SCPI write/query     *)
(* helpers, measurement sequences, trace fetch, IEEE block decoding and    *)
(* screenshot retrieval.                                                   *)
(*                                                                         *)
(* One action models one public method call.  The instrument and the VISA  *)
(* library are the environment: every transport call of a method gets its  *)
(* outcome (success, failure of the write, failure of the read) and its    *)
(* response from the action's existentially quantified inputs.             *)
(***************************************************************************)
EXTENDS Integers, Sequences, FiniteSets, TLC

(***************************************************************************)
(* Bounds of the model                                                     *)
(***************************************************************************)
\* longest raw text response the instrument sends, in characters
MaxRespLen == 2
\* longest payload of a binary block, in bytes
MaxPayload == 3
\* most bytes a short transport read delivers
MaxFrag == 2
\* most unread bytes on the transport with which a capture is still started
MaxPending == 0
\* most samples a trace reply carries
MaxSamples == 5

\* a capture starts with at most this many screenshots left on the instrument
MaxStored == 0

(***************************************************************************)
(* Program constants                                                       *)
(***************************************************************************)
\* default of the timeout parameter of __init__ (ms)
DefaultTimeout == 5000
\* timeout get_band_power applies while its sequence runs (ms)
BandPowerTimeout == 10000

\* timeouts a caller may configure: the default, the band-power value, more
Timeouts == {DefaultTimeout, BandPowerTimeout, 20000}

\* characters of a text response; " " and "\n" are whitespace to str.strip
WS == {" ", "\n"}
Chars == WS \cup {"7"}

\* raw text lines the instrument may answer a query with
RawResponses == UNION {[1..n -> Chars] : n \in 0..MaxRespLen}

\* numeric arguments a caller passes to the setters
Values == {1000, 2000}

NoArg == -1

\* chunk_size of a handle that capture_screen has not changed
DefaultChunkSize == 20000
\* timeout and chunk size capture_screen applies while it transfers the file
TransferTimeout == 120000
TransferChunkSize == 1048576

\* upper limit of one payload read of _read_ieee_block (bytes)
MaxChunk == 1048576

\* byte values of the characters that occur in blocks
Ascii == [c \in {"#", "0", "A", "\n"} |->
            CASE c = "#" -> 35 [] c = "0" -> 48 [] c = "A" -> 65 [] c = "\n" -> 10]
Hash == Ascii["#"]
Digit0 == Ascii["0"]
LF == Ascii["\n"]
LetterA == Ascii["A"]
IsDigit(b) == b \in Digit0..(Digit0 + 9)

VARIABLES
    rx,           \* bytes the instrument has sent that no read has consumed yet
    frag,         \* sizes the transport cuts the coming reads to (0: not cut)
    remote,       \* candidate paths under which the instrument holds a screenshot
    timeout,      \* self.timeout: the configured timeout
    rm,           \* self.rm: "None", or the state of the resource manager
    sa,           \* self.sa: "None", or the state of the handle: "open"/"closed"
    sa_timeout,   \* self.sa.timeout (0 while self.sa is None)
    sa_chunk_size,\* self.sa.chunk_size (0 while self.sa is None)
    log,          \* transport calls made by the last method call, in order
    ret           \* outcome of the last method call

vars == <<rx, frag, remote, timeout, rm, sa, sa_timeout, sa_chunk_size, log, ret>>

(***************************************************************************)
(* Results of a method call                                                *)
(***************************************************************************)
Returned(op, kind, val) ==
    [op |-> op, args |-> <<>>, kind |-> kind, val |-> val, err |-> ""]
Raised(op, err) ==
    [op |-> op, args |-> <<>>, kind |-> "raise", val |-> <<>>, err |-> err]

\* the result r of a call that was made with the arguments args
WithArgs(r, args) == [r EXCEPT !.args = args]

\* no call is in progress: the caller has taken the result of the last one
NoCall == [op |-> "", args |-> <<>>, kind |-> "idle", val |-> <<>>, err |-> ""]
Idle == ret.kind = "idle"

(***************************************************************************)
(* str.strip(): drop leading and trailing whitespace                       *)
(***************************************************************************)
RECURSIVE LStrip(_)
LStrip(s) == IF s # <<>> /\ Head(s) \in WS THEN LStrip(Tail(s)) ELSE s

RECURSIVE RStrip(_)
RStrip(s) ==
    IF s # <<>> /\ s[Len(s)] \in WS THEN RStrip(SubSeq(s, 1, Len(s) - 1)) ELSE s

\* variant: only the leading whitespace is dropped
StripLeftOnly(s) == LStrip(s)

Strip(s) == RStrip(LStrip(s))

(***************************************************************************)
(* Transport calls                                                         *)
(*                                                                         *)
(* A step is one self.write or self.query of a method.  The environment    *)
(* gives each step an outcome o ("ok", "wfail": the transport write fails, *)
(* "rfail": the transport read fails) and a raw response.  A step marked   *)
(* tol sits in a try/except of its own: its failure is swallowed.          *)
(***************************************************************************)
W(cmd, arg) == [kind |-> "write", cmd |-> cmd, arg |-> arg, tol |-> FALSE]
Q(cmd, arg) == [kind |-> "query", cmd |-> cmd, arg |-> arg, tol |-> FALSE]
Tolerated(step) == [step EXCEPT !.tol = TRUE]

Outcomes(step) == IF step.kind = "write" THEN {"ok", "wfail"} ELSE {"ok", "wfail", "rfail"}

\* a response whose value the method only prints
Sample == <<"7">>

\* the outcomes of the steps of a program, in order; the steps after the one
\* whose failure ends the program are never made, so their outcome is "ok"
OutcomeSeqs(prog) ==
    {os \in [1..Len(prog) -> {"ok", "wfail", "rfail"}] :
        \A i \in 1..Len(prog) :
            /\ os[i] \in Outcomes(prog[i])
            /\ (\E j \in 1..(i - 1) : os[j] # "ok" /\ ~prog[j].tol) => os[i] = "ok"}

\* the environments of a program: one outcome and one response per step; the
\* response of the last step ranges over resps, the earlier ones are printed
\* by the method and otherwise unused
EnvOf(prog, os, r) ==
    [i \in 1..Len(prog) |->
        [o    |-> os[i],
         resp |-> IF prog[i].kind = "write" \/ os[i] # "ok" THEN <<>>
                  ELSE IF i = Len(prog) THEN r
                  ELSE Sample]]

Envs(prog, resps) ==
    UNION {{EnvOf(prog, os, r) :
                r \in IF \A i \in 1..Len(prog) : os[i] = "ok" \/ prog[i].tol
                      THEN resps ELSE {Sample}} :
           os \in OutcomeSeqs(prog)}

\* a call on a closed handle fails in the library before anything is sent
Outcome(st, o) == IF st = "closed" THEN "wfail" ELSE o

Entry(call, step, tmo, ok, resp) ==
    [call |-> call, cmd |-> step.cmd, arg |-> step.arg, tmo |-> tmo,
     ok |-> ok, resp |-> resp]

\* self.write / self.query: the transport calls one step makes
StepLog(step, e, st, tmo) ==
    LET o == Outcome(st, e.o) IN
    IF st = "None" THEN <<>>
    ELSE IF step.kind = "write"
         THEN <<Entry("write", step, tmo, o = "ok", <<>>)>>
    ELSE IF o = "wfail"
         THEN <<Entry("write", step, tmo, FALSE, <<>>)>>
    ELSE <<Entry("write", step, tmo, TRUE, <<>>),
           Entry("read", step, tmo, o = "ok", IF o = "ok" THEN e.resp ELSE <<>>)>>

StepFails(e, st) == st = "None" \/ Outcome(st, e.o) # "ok"

StepErr(st) ==
    IF st = "None" THEN "NotConnected"
    ELSE IF st = "closed" THEN "InvalidSession"
    ELSE "VisaIOError"

\* index of the step whose exception leaves the program; Len(prog)+1 if none
StopAt(prog, env, st) ==
    LET bad == {i \in 1..Len(prog) : StepFails(env[i], st) /\ ~prog[i].tol}
    IN IF bad = {} THEN Len(prog) + 1
       ELSE CHOOSE i \in bad : \A j \in bad : i <= j

RECURSIVE RunLog(_, _, _, _, _)
RunLog(prog, env, st, tmo, n) ==
    IF n = 0 THEN <<>>
    ELSE RunLog(prog, env, st, tmo, n - 1) \o StepLog(prog[n], env[n], st, tmo)

\* run the steps of prog in order until one raises
Run(prog, env, st, tmo) ==
    LET stop == StopAt(prog, env, st)
        last == IF stop <= Len(prog) THEN stop ELSE Len(prog)
    IN [log  |-> RunLog(prog, env, st, tmo, last),
        err  |-> IF stop <= Len(prog) THEN StepErr(st) ELSE "",
        stop |-> stop,
        resp |-> IF stop > Len(prog) /\ Len(prog) > 0
                 THEN Strip(env[Len(prog)].resp) ELSE <<>>]

(***************************************************************************)
(* Initial state: __init__                                                 *)
(***************************************************************************)
Init ==
    /\ rx = <<>>
    /\ frag = <<>>
    /\ remote = {}
    /\ timeout \in Timeouts
    /\ rm = "None"
    /\ sa = "None"
    /\ sa_timeout = 0
    /\ sa_chunk_size = 0
    /\ log = <<>>
    /\ ret = NoCall

(***************************************************************************)
(* VISA session                                                            *)
(***************************************************************************)
\* a call into the VISA library that is not a transport read or write
LibCall(call, ok) ==
    [call |-> call, cmd |-> "", arg |-> NoArg, tmo |-> 0, ok |-> ok, resp |-> <<>>]

ConnectCalls == <<"ResourceManager", "open_resource", "set_timeout">>

\* the library calls connect makes when its k-th call raises (0: none does)
ConnectLog(k) ==
    [i \in 1..(IF k = 0 THEN 3 ELSE k) |-> LibCall(ConnectCalls[i], i # k)]

\* variant: the except clause does not clear self.sa
ConnectOutcomeNoClear(fail) ==
    [rm    |-> IF fail = 1 THEN rm ELSE "open",
     sa    |-> IF fail \in {0, 3} THEN "open" ELSE sa,
     tmo   |-> IF fail = 0 THEN timeout ELSE sa_timeout,
     chunk |-> IF fail \in {0, 3} THEN DefaultChunkSize ELSE sa_chunk_size,
     log   |-> ConnectLog(fail),
     ret   |-> IF fail = 0 THEN Returned("connect", "True", <<>>)
               ELSE Returned("connect", "False", <<>>)]

\* connect(): fail is the position of the statement of the try block that
\* raises, 0 if none does
ConnectOutcome(fail) ==
    [rm    |-> IF fail = 1 THEN rm ELSE "open",
     sa    |-> IF fail = 0 THEN "open" ELSE "None",
     tmo   |-> IF fail = 0 THEN timeout ELSE 0,
     chunk |-> IF fail = 0 THEN DefaultChunkSize ELSE 0,
     log   |-> ConnectLog(fail),
     ret   |-> IF fail = 0 THEN Returned("connect", "True", <<>>)
               ELSE Returned("connect", "False", <<>>)]

Connect ==
    /\ Idle
    /\ \E fail \in 0..3 :
        LET r == ConnectOutcome(fail) IN
        /\ rm' = r.rm
        /\ sa' = r.sa
        /\ sa_timeout' = r.tmo
        /\ sa_chunk_size' = r.chunk
        /\ ret' = r.ret
        /\ log' = r.log
        /\ rx' = <<>>
        /\ UNCHANGED <<frag, remote, timeout>>

\* variant: a failing close is not caught
DisconnectOutcomeUncaught(fail) ==
    LET saFails == sa # "None" /\ fail = "sa.close"
        rmFails == rm # "None" /\ fail = "rm.close"
        saLog == IF sa = "None" THEN <<>> ELSE <<LibCall("sa.close", ~saFails)>>
        rmLog == IF rm = "None" \/ saFails THEN <<>> ELSE <<LibCall("rm.close", ~rmFails)>>
    IN [sa  |-> IF sa = "None" \/ saFails THEN sa ELSE "closed",
        rm  |-> IF rm = "None" \/ saFails \/ rmFails THEN rm ELSE "closed",
        log |-> saLog \o rmLog,
        ret |-> IF saFails \/ rmFails THEN Raised("disconnect", "VisaIOError")
                ELSE Returned("disconnect", "None", <<>>)]

\* disconnect(): fail is the close call that raises, if any; a close that
\* raises leaves its object as it was and skips the rest of the try block
DisconnectOutcome(fail) ==
    LET saFails == sa # "None" /\ fail = "sa.close"
        rmFails == rm # "None" /\ fail = "rm.close"
        saLog == IF sa = "None" THEN <<>> ELSE <<LibCall("sa.close", ~saFails)>>
        rmLog == IF rm = "None" \/ saFails THEN <<>> ELSE <<LibCall("rm.close", ~rmFails)>>
    IN [sa  |-> IF sa = "None" \/ saFails THEN sa ELSE "closed",
        rm  |-> IF rm = "None" \/ saFails \/ rmFails THEN rm ELSE "closed",
        log |-> saLog \o rmLog,
        ret |-> Returned("disconnect", "None", <<>>)]

Disconnect ==
    /\ Idle
    /\ \E fail \in {"none", "sa.close", "rm.close"} :
        LET r == DisconnectOutcome(fail) IN
        /\ sa' = r.sa
        /\ rm' = r.rm
        /\ ret' = r.ret
        /\ log' = r.log
        /\ UNCHANGED <<rx, frag, remote, timeout, sa_timeout, sa_chunk_size>>

\* the caller takes the result; the record of the call is dropped
Return ==
    /\ ~Idle
    /\ ret' = NoCall
    /\ log' = <<>>
    /\ UNCHANGED <<rx, frag, remote, timeout, rm, sa, sa_timeout, sa_chunk_size>>

(***************************************************************************)
(* Low-level helpers and the parameter setters/getters built on them       *)
(***************************************************************************)
\* write(cmd)
Write(op, cmd, arg) ==
    /\ Idle
    /\ \E env \in Envs(<<W(cmd, arg)>>, {<<>>}) :
        LET r == Run(<<W(cmd, arg)>>, env, sa, sa_timeout) IN
        /\ log' = r.log
        /\ ret' = WithArgs(IF r.err = "" THEN Returned(op, "None", <<>>)
                           ELSE Raised(op, r.err),
                           IF arg = NoArg THEN <<>> ELSE <<arg>>)
        /\ UNCHANGED <<rx, frag, remote, timeout, rm, sa, sa_timeout, sa_chunk_size>>

\* query(cmd)
Query(op, cmd, arg) ==
    /\ Idle
    /\ \E env \in Envs(<<Q(cmd, arg)>>, RawResponses) :
        LET r == Run(<<Q(cmd, arg)>>, env, sa, sa_timeout) IN
        /\ log' = r.log
        /\ ret' = IF r.err = "" THEN Returned(op, "value", r.resp) ELSE Raised(op, r.err)
        /\ UNCHANGED <<rx, frag, remote, timeout, rm, sa, sa_timeout, sa_chunk_size>>

SetCenterFrequency == \E v \in Values : Write("set_center_frequency", "FREQ:CENT", v)
GetCenterFrequency == Query("get_center_frequency", "FREQ:CENT?", NoArg)
SetSpan == \E v \in Values : Write("set_span", "FREQ:SPAN", v)
GetSpan == Query("get_span", "FREQ:SPAN?", NoArg)
SetRbw == \E v \in Values : Write("set_rbw", "BAND", v)
GetRbw == Query("get_rbw", "BAND?", NoArg)
SetRefLevel == \E v \in Values : Write("set_ref_level", "DISP:WIND:TRACE:Y:SCAL:RLEV", v)
GetRefLevel == Query("get_ref_level", "DISP:WIND:TRACE:Y:SCAL:RLEV?", NoArg)
SetTraceAverage == Write("set_trace_average", ":TRAC:TYPE AVER", NoArg)
SetSanalyzer == Write("set_sanalyzer", ":CONF:SAN", NoArg)

(***************************************************************************)
(* Measurements                                                            *)
(***************************************************************************)
\* a method whose body lets the error of a failing step reach its caller
BestEffortPropagates(op, args, prog) ==
    /\ Idle
    /\ \E env \in Envs(prog, RawResponses) :
        LET r == Run(prog, env, sa, sa_timeout) IN
        /\ log' = r.log
        /\ ret' = WithArgs(IF r.err = "" THEN Returned(op, "value", r.resp)
                           ELSE Raised(op, r.err), args)
        /\ UNCHANGED <<rx, frag, remote, timeout, rm, sa, sa_timeout, sa_chunk_size>>

\* a method whose whole body is one try/except returning None on any error
BestEffort(op, args, prog) ==
    /\ Idle
    /\ \E env \in Envs(prog, RawResponses) :
        LET r == Run(prog, env, sa, sa_timeout) IN
        /\ log' = r.log
        /\ ret' = WithArgs(IF r.err = "" THEN Returned(op, "value", r.resp)
                           ELSE Returned(op, "None", <<>>), args)
        /\ UNCHANGED <<rx, frag, remote, timeout, rm, sa, sa_timeout, sa_chunk_size>>

HighPeakSteps == <<W("CALC:MARK:MAX", NoArg), Q("CALC:MARK:Y?", NoArg)>>
LowPeakSteps == <<W("CALC:MARK:MIN", NoArg), Q("CALC:MARK:Y?", NoArg)>>

GetCurrentHighPeak == BestEffort("get_current_high_peak", <<>>, HighPeakSteps)
GetCurrentLowPeak == BestEffort("get_current_low_peak", <<>>, LowPeakSteps)

\* variant: the BPOW select is an ordinary step of the sequence
BandPowerStepsStrict(band_span_hz) ==
    << W("CALC:MARK1:STAT ON", NoArg),
       W("CALC:MARK1:FUNC:BAND ON", NoArg),
       Q("CALC:MARK1:FUNC?", NoArg),
       W("CALC:MARK1:FUNC:BAND:SPAN", band_span_hz),
       Q("CALC:MARK1:FUNC:BAND:SPAN?", NoArg),
       Q("CALC:MARK:FUNC BPOW", NoArg),
       Q("CALC:MARK1:Y?", NoArg) >>

\* variant: the span readback has its own except as well
BandPowerStepsLenient(band_span_hz) ==
    << W("CALC:MARK1:STAT ON", NoArg),
       W("CALC:MARK1:FUNC:BAND ON", NoArg),
       Q("CALC:MARK1:FUNC?", NoArg),
       W("CALC:MARK1:FUNC:BAND:SPAN", band_span_hz),
       Tolerated(Q("CALC:MARK1:FUNC:BAND:SPAN?", NoArg)),
       Tolerated(Q("CALC:MARK:FUNC BPOW", NoArg)),
       Q("CALC:MARK1:Y?", NoArg) >>

\* the command sequence of get_band_power; the BPOW select has its own except
BandPowerSteps(band_span_hz) ==
    << W("CALC:MARK1:STAT ON", NoArg),
       W("CALC:MARK1:FUNC:BAND ON", NoArg),
       Q("CALC:MARK1:FUNC?", NoArg),
       W("CALC:MARK1:FUNC:BAND:SPAN", band_span_hz),
       Q("CALC:MARK1:FUNC:BAND:SPAN?", NoArg),
       Tolerated(Q("CALC:MARK:FUNC BPOW", NoArg)),
       Q("CALC:MARK1:Y?", NoArg) >>

\* the timeout get_band_power runs its sequence under
BandPowerOverride(old_timeout) == BandPowerTimeout

\* variant: the timeout is put back only when the sequence succeeded
BandPowerRestoreOnSuccess(old_timeout, err) ==
    IF err = "" THEN old_timeout ELSE BandPowerTimeout

\* the timeout the finally clause of get_band_power leaves behind
BandPowerRestore(old_timeout, err) == old_timeout

GetBandPowerOutcome(band_span_hz, env) ==
    IF sa = "None" THEN
        [log |-> <<>>, tmo |-> sa_timeout, ret |-> Raised("get_band_power", "NotConnected")]
    ELSE IF sa = "closed" THEN
        \* reading self.sa.timeout of a closed handle raises before the try
        [log |-> <<>>, tmo |-> sa_timeout, ret |-> Raised("get_band_power", "InvalidSession")]
    ELSE
        LET old_timeout == sa_timeout
            r == Run(BandPowerSteps(band_span_hz), env, sa, BandPowerOverride(old_timeout))
        IN [log |-> r.log,
            tmo |-> BandPowerRestore(old_timeout, r.err),
            ret |-> IF r.err = "" THEN Returned("get_band_power", "value", r.resp)
                    ELSE Returned("get_band_power", "None", <<>>)]

GetBandPower ==
    /\ Idle
    /\ \E band_span_hz \in Values :
        \E env \in Envs(BandPowerSteps(band_span_hz), RawResponses) :
            LET r == GetBandPowerOutcome(band_span_hz, env) IN
            /\ log' = r.log
            /\ sa_timeout' = r.tmo
            /\ ret' = WithArgs(r.ret, <<band_span_hz>>)
            /\ UNCHANGED <<rx, frag, remote, timeout, rm, sa, sa_chunk_size>>

\* inputs of read_obwidth; NoArg stands for None, the roll-off is in percent
SymbolRates == {NoArg, 500, 1000}
SpreadFactors == {NoArg, 1, 7}
RollOffs == {NoArg, 20, 35}

DefaultObwSpan == 10000000

\* the span of a read_obwidth that falls back to the default only when all
\* three inputs are missing
ObwSpanAllMissing(ob_symbol_rate, ob_spread_factor, ob_tx_roll_off) ==
    IF {ob_symbol_rate, ob_spread_factor, ob_tx_roll_off} = {NoArg}
    THEN DefaultObwSpan
    ELSE (ob_symbol_rate * 1000 * ob_spread_factor * (100 + ob_tx_roll_off) * 2) \div 100

ObwSpan(ob_symbol_rate, ob_spread_factor, ob_tx_roll_off) ==
    IF NoArg \in {ob_symbol_rate, ob_spread_factor, ob_tx_roll_off}
    THEN DefaultObwSpan
    ELSE (ob_symbol_rate * 1000 * ob_spread_factor * (100 + ob_tx_roll_off) * 2) \div 100

ObwSteps(span_hz) ==
    << W(":SENSe:OBWidth:FREQ:SPAN", span_hz),
       Q(":SENSe:OBWidth:FREQ:SPAN?", NoArg),
       Q(":READ:OBWidth?", NoArg) >>

\* read_obwidth(ob_symbol_rate, ob_spread_factor, ob_tx_roll_off)
ReadObwidthWith(rates, factors, rolloffs) ==
    \E sr \in rates, sf \in factors, ro \in rolloffs :
        BestEffort("read_obwidth", <<sr, sf, ro>>, ObwSteps(ObwSpan(sr, sf, ro)))

ReadObwidth == ReadObwidthWith({NoArg, 1000}, {7}, {NoArg, 35})

\* a connected session on which occupied bandwidth is measured
InitObw ==
    /\ rx = <<>>
    /\ frag = <<>>
    /\ remote = {}
    /\ timeout \in Timeouts
    /\ rm = "open"
    /\ sa = "open"
    /\ sa_timeout = timeout
    /\ sa_chunk_size = DefaultChunkSize
    /\ log = <<>>
    /\ ret = NoCall

ReadObwidthAll == ReadObwidthWith(SymbolRates, SpreadFactors, RollOffs)

NextObw == ReadObwidthAll \/ Return

SpecObw == InitObw /\ [][NextObw]_vars

(***************************************************************************)
(* Trace acquisition                                                       *)
(***************************************************************************)
\* float(str) on the texts the instrument answers with: decimal digits,
\* with or without a decimal exponent
Digits == {"0", "1", "2", "3", "4", "5", "6", "7", "8", "9"}
IsDigits(s) == s # <<>> /\ \A i \in 1..Len(s) : s[i] \in Digits
ExpMarks(s) == {i \in 1..Len(s) : s[i] = "e"}
Mantissa(s) ==
    IF ExpMarks(s) = {} THEN s ELSE SubSeq(s, 1, (CHOOSE i \in ExpMarks(s) : TRUE) - 1)
Exponent(s) ==
    IF ExpMarks(s) = {} THEN <<"0">>
    ELSE SubSeq(s, (CHOOSE i \in ExpMarks(s) : TRUE) + 1, Len(s))
IsNumber(s) ==
    /\ Cardinality(ExpMarks(s)) <= 1
    /\ IsDigits(Mantissa(s))
    /\ IsDigits(Exponent(s))
CharValue(c) ==
    CASE c = "0" -> 0 [] c = "1" -> 1 [] c = "2" -> 2 [] c = "3" -> 3 [] c = "4" -> 4
      [] c = "5" -> 5 [] c = "6" -> 6 [] c = "7" -> 7 [] c = "8" -> 8 [] c = "9" -> 9
RECURSIVE DigitsValue(_)
DigitsValue(s) ==
    IF s = <<>> THEN 0
    ELSE 10 * DigitsValue(SubSeq(s, 1, Len(s) - 1)) + CharValue(s[Len(s)])
RECURSIVE Pow10(_)
Pow10(n) == IF n = 0 THEN 1 ELSE 10 * Pow10(n - 1)
NumberValue(s) == DigitsValue(Mantissa(s)) * Pow10(DigitsValue(Exponent(s)))

\* responses without surrounding whitespace
TrimmedResponses == {r \in RawResponses : Strip(r) = r}

\* answers to SWE:POIN?, FREQ:CENT? and FREQ:SPAN? on a sweep under study
PointTexts == {<<>>, <<"e">>, <<"5">>, <<"7">>}
CenterTexts == {<<>>, <<"7">>, <<"1", "e", "9">>}
SpanTexts == {<<>>, <<"7">>, <<"2", "e", "6">>}

DefaultPoints == 1001

\* pts = int(float(self.query("SWE:POIN?"))), or 1001 when that raises
QueriedPoints(r) ==
    IF r.err = "" /\ IsNumber(r.resp) THEN NumberValue(r.resp) ELSE DefaultPoints

\* an axis as long as the instrument declared, whatever was decoded
AxisPointsDeclared(pts, trace) == pts

\* if len(trace) != pts: pts = len(trace)
AxisPoints(pts, trace) == IF Len(trace) # pts THEN Len(trace) ELSE pts

\* float(text or default)
FloatOr(text, default) == IF text = <<>> THEN default ELSE NumberValue(text)

\* the frequency base + num/den
Freq(base, num, den) == [base |-> base, num |-> num, den |-> den]

\* a linspace whose last point falls one step short of the stop value
LinspaceOpen(cf, span, pts) ==
    [i \in 1..pts |-> Freq(cf, span * (2 * (i - 1) - pts), 2 * pts)]

\* np.linspace(cf - span/2, cf + span/2, pts) as exact fractions around cf:
\* start + (i-1) * (stop - start) / (pts - 1), and [start] when pts = 1
Linspace(cf, span, pts) ==
    [i \in 1..pts |->
        IF pts > 1 THEN Freq(cf, span * (2 * (i - 1) - (pts - 1)), 2 * (pts - 1))
        ELSE Freq(cf, -span, 2)]

FormatSteps == <<W(":FORM REAL,32", NoArg), W(":FORM:BORD SWAP", NoArg)>>

\* amplitude samples of a trace reply
Traces == UNION {[1..n -> {-50}] : n \in 0..MaxSamples}
ShortTraces == {t \in Traces : Len(t) <= 1}

FetchTraceOutcome(ef, ep, ed, trace, ec, es) ==
    LET op == "fetch_trace"
        f == Run(FormatSteps, ef, sa, sa_timeout)
        p == Run(<<Q("SWE:POIN?", NoArg)>>, ep, sa, sa_timeout)
        dq == Run(<<Q("TRAC:DATA?", 1)>>, ed, sa, sa_timeout)
        \* query_binary_values hands back the decoded samples
        d == IF dq.err # "" THEN dq
             ELSE [dq EXCEPT !.log = [dq.log EXCEPT ![Len(dq.log)].resp = trace]]
        c == Run(<<Q("FREQ:CENT?", NoArg)>>, ec, sa, sa_timeout)
        sp == Run(<<Q("FREQ:SPAN?", NoArg)>>, es, sa, sa_timeout)
        pts == AxisPoints(QueriedPoints(p), trace)
        l3 == f.log \o p.log \o d.log
    IN IF sa = "None" THEN [log |-> <<>>, ret |-> Raised(op, "NotConnected")]
       ELSE IF d.err # "" THEN [log |-> l3, ret |-> Raised(op, d.err)]
       ELSE IF Len(trace) = 0 THEN [log |-> l3, ret |-> Raised(op, "NoData")]
       ELSE IF c.err # "" THEN [log |-> l3 \o c.log, ret |-> Raised(op, c.err)]
       ELSE IF c.resp # <<>> /\ ~IsNumber(c.resp)
            THEN [log |-> l3 \o c.log, ret |-> Raised(op, "ValueError")]
       ELSE IF sp.err # "" THEN [log |-> l3 \o c.log \o sp.log, ret |-> Raised(op, sp.err)]
       ELSE IF sp.resp # <<>> /\ ~IsNumber(sp.resp)
            THEN [log |-> l3 \o c.log \o sp.log, ret |-> Raised(op, "ValueError")]
       ELSE [log |-> l3 \o c.log \o sp.log,
             ret |-> Returned(op, "value",
                        <<Linspace(FloatOr(c.resp, 0), FloatOr(sp.resp, 1), pts), trace>>)]

\* fetch_trace(trace_name) with the instrument answering from the given texts
FetchTraceWith(points, centers, spans, traces) ==
    /\ Idle
    /\ \E ef \in Envs(FormatSteps, {<<>>}),
          ep \in Envs(<<Q("SWE:POIN?", NoArg)>>, points),
          ed \in Envs(<<Q("TRAC:DATA?", 1)>>, {<<>>}),
          trace \in traces,
          ec \in Envs(<<Q("FREQ:CENT?", NoArg)>>, centers),
          es \in Envs(<<Q("FREQ:SPAN?", NoArg)>>, spans) :
        LET r == FetchTraceOutcome(ef, ep, ed, trace, ec, es) IN
        /\ log' = r.log
        /\ ret' = r.ret
        /\ UNCHANGED <<rx, frag, remote, timeout, rm, sa, sa_timeout, sa_chunk_size>>

FetchTrace == FetchTraceWith({<<"7">>}, {<<>>, <<"7">>}, {<<"7">>}, ShortTraces)

\* a connected session whose sweeps are fetched
InitTrace ==
    /\ rx = <<>>
    /\ frag = <<>>
    /\ remote = {}
    /\ timeout \in Timeouts
    /\ rm = "open"
    /\ sa = "open"
    /\ sa_timeout = timeout
    /\ sa_chunk_size = DefaultChunkSize
    /\ log = <<>>
    /\ ret = NoCall

FetchTraceAll == FetchTraceWith(PointTexts, CenterTexts, SpanTexts, Traces)

NextTrace == FetchTraceAll \/ Return

SpecTrace == InitTrace /\ [][NextTrace]_vars

(***************************************************************************)
(* Remote files                                                            *)
(***************************************************************************)
\* the candidate directories of capture_screen, by position in the list
NumAttempts == 5
RemotePaths == 1..NumAttempts

\* the instrument keeps the screenshot it was told to store, unless its
\* listing of the directory came back without the file
Stored(lg) ==
    {i \in RemotePaths :
        /\ \E k \in 1..Len(lg) :
            lg[k].cmd = ":MMEM:STOR:SCR" /\ lg[k].arg = i /\ lg[k].ok
        /\ ~\E k \in 1..Len(lg) :
            /\ lg[k].call = "read" /\ lg[k].cmd = ":MMEM:CAT?" /\ lg[k].arg = i
            /\ lg[k].ok /\ lg[k].resp = <<>>}

\* the instrument drops the file a delete command names; a command naming
\* a file it does not hold changes nothing and does not disturb the transport
Deleted(lg) ==
    {i \in RemotePaths :
        \E k \in 1..Len(lg) : lg[k].cmd = ":MMEM:DEL" /\ lg[k].arg = i /\ lg[k].ok}

\* delete_remote_file(remote_path): True, or False on any error
DeleteSteps(remote_path) == <<W(":MMEM:DEL", remote_path), Q("*OPC?", NoArg)>>

DeleteRemoteFile ==
    /\ Idle
    /\ \E remote_path \in RemotePaths :
        \E env \in Envs(DeleteSteps(remote_path), {Sample}) :
            LET r == Run(DeleteSteps(remote_path), env, sa, sa_timeout) IN
            /\ log' = r.log
            /\ ret' = WithArgs(IF r.err = "" THEN Returned("delete_remote_file", "True", <<>>)
                               ELSE Returned("delete_remote_file", "False", <<>>),
                               <<remote_path>>)
            /\ remote' = remote \ Deleted(r.log)
            /\ UNCHANGED <<rx, frag, timeout, rm, sa, sa_timeout, sa_chunk_size>>

(***************************************************************************)
(* IEEE block decoder                                                      *)
(***************************************************************************)
Min(a, b) == IF a <= b THEN a ELSE b

\* self.sa.read_bytes(count) on the pending bytes s under the cuts f: the
\* read fails (timeout) when nothing is pending, else delivers 1..count bytes
ReadBytes(s, f, count) ==
    LET cut == IF f # <<>> /\ Head(f) > 0 THEN Head(f) ELSE count
        got == Min(Min(count, Len(s)), cut)
    IN IF count > 0 /\ s = <<>>
       THEN [ok |-> FALSE, bytes |-> <<>>, s |-> s, f |-> IF f = <<>> THEN f ELSE Tail(f)]
       ELSE [ok |-> TRUE, bytes |-> SubSeq(s, 1, got),
             s |-> SubSeq(s, got + 1, Len(s)),
             f |-> IF f = <<>> THEN f ELSE Tail(f)]

ReadEntry(count, r, tmo) ==
    [call |-> "read_bytes", cmd |-> "", arg |-> count, tmo |-> tmo,
     ok |-> r.ok, resp |-> r.bytes]

\* int(str): the decimal value of a non-empty string of digits
RECURSIVE DecimalValue(_)
DecimalValue(ds) ==
    IF ds = <<>> THEN 0
    ELSE 10 * DecimalValue(SubSeq(ds, 1, Len(ds) - 1)) + (ds[Len(ds)] - Digit0)

IsDecimal(ds) == ds # <<>> /\ \A i \in 1..Len(ds) : IsDigit(ds[i])

BlockResult(status, data, s, f, lg) ==
    [status |-> status, data |-> data, s |-> s, f |-> f, log |-> lg]

\* variant: every payload read asks for a full chunk
ChunkRequestFull(remaining) == MaxChunk

\* the size _read_ieee_block asks one payload read for
ChunkRequest(remaining) == Min(MaxChunk, remaining)

\* variant: a payload read that comes back short ends the loop
RECURSIVE PayloadLoopShort(_, _, _, _, _, _)
PayloadLoopShort(s, f, data, remaining, tmo, lg) ==
    IF remaining = 0 THEN BlockResult("ok", data, s, f, lg)
    ELSE LET r == ReadBytes(s, f, ChunkRequest(remaining))
             lg2 == Append(lg, ReadEntry(ChunkRequest(remaining), r, tmo))
         IN IF ~r.ok THEN BlockResult("VisaIOError", <<>>, r.s, r.f, lg2)
            ELSE IF Len(r.bytes) < ChunkRequest(remaining)
                 THEN BlockResult("ok", data \o r.bytes, r.s, r.f, lg2)
            ELSE PayloadLoopShort(r.s, r.f, data \o r.bytes, remaining - Len(r.bytes),
                                  tmo, lg2)

\* while remaining: chunk = read_bytes(...); data.extend(chunk); remaining -= len(chunk)
\* (a negative remaining is truthy: the loop goes on until a read fails)
RECURSIVE PayloadLoop(_, _, _, _, _, _)
PayloadLoop(s, f, data, remaining, tmo, lg) ==
    IF remaining = 0 THEN BlockResult("ok", data, s, f, lg)
    ELSE LET r == ReadBytes(s, f, ChunkRequest(remaining))
             lg2 == Append(lg, ReadEntry(ChunkRequest(remaining), r, tmo))
         IN IF ~r.ok THEN BlockResult("VisaIOError", <<>>, r.s, r.f, lg2)
            ELSE PayloadLoop(r.s, r.f, data \o r.bytes, remaining - Len(r.bytes), tmo, lg2)

\* variant: only an empty header is rejected
HeaderRejectedIfEmpty(hdr) == hdr = <<>>

\* whether the two header bytes are rejected as "Not an IEEE block"
HeaderRejected(hdr) == hdr = <<>> \/ hdr[1] # Hash

\* _read_ieee_block() on the pending bytes s under the cuts f
ReadIeeeBlock(s, f, tmo) ==
    LET h == ReadBytes(s, f, 2)
        lg1 == <<ReadEntry(2, h, tmo)>>
    IN IF ~h.ok THEN BlockResult("VisaIOError", <<>>, h.s, h.f, lg1)
       ELSE IF HeaderRejected(h.bytes) THEN BlockResult("MalformedBlock", <<>>, h.s, h.f, lg1)
       ELSE IF Len(h.bytes) < 2 THEN BlockResult("IndexError", <<>>, h.s, h.f, lg1)
       ELSE IF ~IsDigit(h.bytes[2]) THEN BlockResult("ValueError", <<>>, h.s, h.f, lg1)
       ELSE LET n_digits == h.bytes[2] - Digit0
                d == ReadBytes(h.s, h.f, n_digits)
                lg2 == Append(lg1, ReadEntry(n_digits, d, tmo))
            IN IF ~d.ok THEN BlockResult("VisaIOError", <<>>, d.s, d.f, lg2)
               ELSE IF ~IsDecimal(d.bytes) THEN BlockResult("ValueError", <<>>, d.s, d.f, lg2)
               ELSE PayloadLoop(d.s, d.f, <<>>, DecimalValue(d.bytes), tmo, lg2)

\* a call of _read_ieee_block on the session
ReadIeeeBlockCall ==
    /\ Idle
    /\ sa = "open"
    /\ LET r == ReadIeeeBlock(rx, frag, sa_timeout) IN
        /\ rx' = r.s
        /\ frag' = r.f
        /\ log' = r.log
        /\ ret' = IF r.status = "ok" THEN Returned("_read_ieee_block", "value", r.data)
                  ELSE Raised("_read_ieee_block", r.status)
    /\ UNCHANGED <<remote, timeout, rm, sa, sa_timeout, sa_chunk_size>>

(***************************************************************************)
(* Blocks on the wire                                                      *)
(***************************************************************************)
PayloadBytes == {Hash, LetterA}

\* the n decimal digits of v, most significant first
RECURSIVE DecimalDigits(_, _)
DecimalDigits(v, n) ==
    IF n = 0 THEN <<>>
    ELSE Append(DecimalDigits(v \div 10, n - 1), Digit0 + (v % 10))

\* '#', digit count n, n length digits encoding L, payload, trailing bytes
Block(n, L, payload, trail) ==
    <<Hash, Digit0 + n>> \o DecimalDigits(L, n) \o payload \o trail

Payloads(L) == [1..L -> PayloadBytes]

\* well-formed blocks, alone or followed by a line feed
WellFormedStreams ==
    {Block(n, Len(p), p, t) :
        n \in 1..2, p \in UNION {Payloads(L) : L \in 0..MaxPayload}, t \in {<<>>, <<LF>>}}

\* blocks whose payload ends before the declared length
TruncatedStreams ==
    {Block(1, Len(p) + 1, p, <<>>) : p \in UNION {Payloads(L) : L \in 0..(MaxPayload - 1)}}

\* replies that do not start with the marker
UnmarkedStreams ==
    {<<b1, b2>> \o t : b1 \in {LetterA, Digit0 + 1}, b2 \in {Hash, Digit0 + 1, LetterA},
                       t \in {<<>>, <<Digit0 + 1, LetterA>>}}

Streams == WellFormedStreams \cup TruncatedStreams \cup UnmarkedStreams

\* one cut per read: header, length digits, up to MaxPayload payload reads
Cuts == [1..(2 + MaxPayload) -> 0..MaxFrag]

(***************************************************************************)
(* Screenshot retrieval                                                    *)
(***************************************************************************)
\* the file name capture_screen stores the screenshot under
RemoteName == "Screenshot.PNG"
LocalName == "screenshot.png"

\* what the instrument and the local disk do to one candidate: the outcome
\* of the store, the barrier, the listing and the data command, the reply
\* to the data command with its cuts, and the outcome of the local write
CandidateEnv(store, opc, cat, data, s, f, file) ==
    [store |-> store, opc |-> opc, cat |-> cat, data |-> data,
     s |-> s, f |-> f, file |-> file]

GoodReply == Block(1, 2, <<Hash, LetterA>>, <<LF>>)

\* one environment per way a candidate can go, later steps all succeeding
AllCandidateEnvs ==
    { CandidateEnv("wfail", "ok", "present", "ok", GoodReply, <<>>, "ok"),
      CandidateEnv("ok", "rfail", "present", "ok", GoodReply, <<>>, "ok"),
      CandidateEnv("ok", "ok", "absent", "ok", GoodReply, <<>>, "ok"),
      CandidateEnv("ok", "ok", "present", "wfail", GoodReply, <<>>, "ok"),
      CandidateEnv("ok", "ok", "rfail", "ok", <<LetterA, Digit0 + 1, LetterA>>, <<>>, "ok"),
      CandidateEnv("ok", "ok", "present", "ok", Block(1, 2, <<LetterA>>, <<>>), <<>>, "ok"),
      CandidateEnv("ok", "ok", "present", "ok", GoodReply, <<0, 0, 1, 1>>, "ok"),
      CandidateEnv("ok", "stale", "present", "ok", GoodReply, <<>>, "ok") }

\* the environments the session-level specification draws from
FewCandidateEnvs ==
    { CandidateEnv("wfail", "ok", "present", "ok", GoodReply, <<>>, "ok"),
      CandidateEnv("ok", "ok", "absent", "ok", GoodReply, <<>>, "ok"),
      CandidateEnv("ok", "ok", "present", "ok", GoodReply, <<0, 0, 1, 1>>, "ok") }

StepEnv(o, resp) == <<[o |-> o, resp |-> resp]>>

\* bytes.decode() and str.encode() on the characters that occur on the wire
DigitChars == <<"0", "1", "2", "3", "4", "5", "6", "7", "8", "9">>
Chr(b) == IF IsDigit(b) THEN DigitChars[b - Digit0 + 1]
          ELSE IF b = Hash THEN "#"
          ELSE IF b = LF THEN "\n"
          ELSE IF b = LetterA THEN "A"
          ELSE " "
Ord(c) == IF c = "#" THEN Hash
          ELSE IF c = "\n" THEN LF
          ELSE IF c = "A" THEN LetterA
          ELSE IF c = " " THEN 32
          ELSE Digit0 + (CHOOSE d \in 0..9 : DigitChars[d + 1] = c)
Decode(bytes) == [k \in 1..Len(bytes) |-> Chr(bytes[k])]
Encode(text) == [k \in 1..Len(text) |-> Ord(text[k])]

\* a read that takes a fresh message and leaves the pending bytes alone
FreshRead(s, reply) == [resp |-> reply, s |-> s]

\* self.sa.read() of query on a transport that delivers bytes in the order
\* they were sent: the read takes the unread bytes s and the reply to its own
\* command up to the first terminator, and leaves the rest unread
StreamRead(s, reply) ==
    LET stream == s \o Encode(reply) \o <<LF>>
        k == CHOOSE n \in 1..Len(stream) :
                 stream[n] = LF /\ \A m \in 1..(n - 1) : stream[m] # LF
    IN [resp |-> Decode(SubSeq(stream, 1, k - 1)),
        s |-> SubSeq(stream, k + 1, Len(stream))]

CandidateResult(lg, done, err, s, path) ==
    [log |-> lg, done |-> done, err |-> err, rx |-> s, path |-> path]

\* a finally clause that puts back the timeout but not the chunk size
TransferRestoreTimeoutOnly(old_timeout, old_chunk) ==
    [tmo |-> old_timeout, chunk |-> TransferChunkSize]

\* the timeout and chunk size the finally clause of capture_screen restores
TransferRestore(old_timeout, old_chunk) == [tmo |-> old_timeout, chunk |-> old_chunk]

\* a listing check that also gives the candidate up when the listing fails
ListingSkipsOnError(cat_err, listing) ==
    cat_err # "" \/ RemoteName \notin {listing[k] : k \in 1..Len(listing)}

\* the listing check: the candidate is skipped when the listing came back
\* and does not hold the file name; a failed listing is only printed
ListingSkips(cat_err, listing) ==
    cat_err = "" /\ RemoteName \notin {listing[k] : k \in 1..Len(listing)}

\* variant: the store command is not followed by the barrier
StoreStepsNoBarrier(i) == <<W(":MMEM:STOR:SCR", i)>>

\* self.write(':MMEM:STOR:SCR ...'); self.wait_for_opc()
StoreSteps(i) == <<W(":MMEM:STOR:SCR", i), Q("*OPC?", NoArg)>>

\* one pass of the for loop of capture_screen: candidate i under e, with s
\* the bytes pending on the transport and err the last_error so far
Candidate(i, e, s0, err, st, tmo) ==
    LET opc == IF e.opc = "stale" THEN StreamRead(s0, Sample) ELSE FreshRead(s0, Sample)
        store == Run(StoreSteps(i),
                     StepEnv(e.store, <<>>)
                         \o StepEnv(IF e.opc = "stale" THEN "ok" ELSE e.opc, opc.resp),
                     st, tmo)
        s == IF store.err = "" THEN opc.s ELSE s0
        listing == IF e.cat = "present" THEN <<RemoteName>> ELSE <<>>
        cat == Run(<<Q(":MMEM:CAT?", i)>>,
                   StepEnv(IF e.cat \in {"wfail", "rfail"} THEN e.cat ELSE "ok", listing),
                   st, tmo)
        data == Run(<<W(":MMEM:DATA?", i)>>, StepEnv(e.data, <<>>), st, TransferTimeout)
        block == ReadIeeeBlock(s \o e.s, e.f, TransferTimeout)
        fileEntry == [call |-> "file_write", cmd |-> LocalName, arg |-> NoArg,
                      tmo |-> TransferTimeout, ok |-> e.file = "ok", resp |-> block.data]
        l2 == store.log \o cat.log
        l3 == l2 \o data.log
        l4 == l3 \o block.log
    IN IF store.err # "" THEN CandidateResult(store.log, FALSE, store.err, s0, 0)
       ELSE IF ListingSkips(cat.err, listing)
            THEN CandidateResult(l2, FALSE, err, s, 0)
       ELSE IF data.err # "" THEN CandidateResult(l3, FALSE, data.err, s, 0)
       ELSE IF block.status # "ok" THEN CandidateResult(l4, FALSE, block.status, block.s, 0)
       ELSE IF e.file # "ok"
            THEN CandidateResult(Append(l4, fileEntry), FALSE, "OSError", block.s, 0)
       ELSE CandidateResult(Append(l4, fileEntry), TRUE, err, block.s, i)

\* a for loop that leaves the last entry of attempts out
LoopDoneEarly(i) == i >= NumAttempts

\* the for loop over attempts has no candidate left when it reaches index i
LoopDone(i) == i > NumAttempts

\* a for loop that goes on to the next candidate after a successful transfer
RECURSIVE CaptureRunsOn(_, _, _, _, _, _, _)
CaptureRunsOn(i, envs, lg, s, err, st, tmo) ==
    IF LoopDone(i) THEN {CandidateResult(lg, FALSE, err, s, 0)}
    ELSE UNION { LET c == Candidate(i, e, s, err, st, tmo) IN
                 IF c.done /\ i = NumAttempts
                 THEN {CandidateResult(lg \o c.log, TRUE, c.err, c.rx, c.path)}
                 ELSE CaptureRunsOn(i + 1, envs, lg \o c.log, c.rx, c.err, st, tmo)
               : e \in envs }

\* the for loop from candidate i on: every way the remaining candidates can go
RECURSIVE CaptureRuns(_, _, _, _, _, _, _)
CaptureRuns(i, envs, lg, s, err, st, tmo) ==
    IF LoopDone(i) THEN {CandidateResult(lg, FALSE, err, s, 0)}
    ELSE UNION { LET c == Candidate(i, e, s, err, st, tmo) IN
                 IF c.done THEN {CandidateResult(lg \o c.log, TRUE, c.err, c.rx, c.path)}
                 ELSE CaptureRuns(i + 1, envs, lg \o c.log, c.rx, c.err, st, tmo)
               : e \in envs }

\* variant: after the loop the last error is raised again
CaptureReturnRaises(r) ==
    IF r.done THEN Returned("capture_screen", "value", <<LocalName, r.path>>)
    ELSE IF r.err # "" THEN Raised("capture_screen", r.err)
    ELSE Returned("capture_screen", "None", <<>>)

\* return local_filename, remote_path inside the loop; after the loop
\* last_error is printed and (None, None) returned
CaptureReturn(r) ==
    IF r.done THEN Returned("capture_screen", "value", <<LocalName, r.path>>)
    ELSE [Returned("capture_screen", "None", <<>>) EXCEPT !.err = r.err]

\* capture_screen(local_filename)
CaptureScreenWith(envs) ==
    /\ Idle
    /\ Len(rx) <= MaxPending
    /\ Cardinality(remote) <= MaxStored
    /\ IF sa = "None"
       THEN /\ ret' = Raised("capture_screen", "NotConnected")
            /\ log' = <<>>
            /\ UNCHANGED <<rx, remote, sa_timeout, sa_chunk_size>>
       ELSE \E r \in CaptureRuns(1, envs, <<>>, rx, "", sa, sa_timeout) :
                LET restored == TransferRestore(sa_timeout, sa_chunk_size) IN
                /\ log' = r.log
                /\ ret' = CaptureReturn(r)
                /\ rx' = r.rx
                /\ remote' = remote \cup Stored(r.log)
                /\ sa_timeout' = restored.tmo
                /\ sa_chunk_size' = restored.chunk
    /\ UNCHANGED <<frag, timeout, rm, sa>>

CaptureScreen == CaptureScreenWith(FewCandidateEnvs)

\* a connected session on which screenshots are captured
InitCapture ==
    /\ rx = <<>>
    /\ frag = <<>>
    /\ remote = {}
    /\ timeout = DefaultTimeout
    /\ rm = "open"
    /\ sa = "open"
    /\ sa_timeout = timeout
    /\ sa_chunk_size = DefaultChunkSize
    /\ log = <<>>
    /\ ret = NoCall

CaptureScreenAll == CaptureScreenWith(AllCandidateEnvs)

NextCapture == CaptureScreenAll \/ Return

SpecCapture == InitCapture /\ [][NextCapture]_vars

(***************************************************************************)
(* The capture workflow of the application: do_capture                     *)
(***************************************************************************)
\* os.remove(local_file): the local copy goes away unless the call fails
RemoveEntry(ok) ==
    [call |-> "file_remove", cmd |-> LocalName, arg |-> NoArg,
     tmo |-> DefaultTimeout, ok |-> ok, resp |-> <<>>]

\* the cleanup of do_capture after capture_screen returned r: when a local
\* file came back it is removed and the returned remote path is deleted
Cleanup(r, removed, del) ==
    IF r.done THEN <<RemoveEntry(removed)>> \o del.log ELSE <<>>

\* do_capture(): capture_screen, then the cleanup; every error is reported
\* to the page and nothing is returned
DoCapture ==
    /\ Idle
    /\ Len(rx) <= MaxPending
    /\ Cardinality(remote) <= MaxStored
    /\ sa = "open"
    /\ \E r \in CaptureRuns(1, AllCandidateEnvs, <<>>, rx, "", sa, sa_timeout) :
        \E removed \in IF r.done THEN BOOLEAN ELSE {TRUE} :
        \E env \in IF r.done THEN Envs(DeleteSteps(r.path), {Sample})
                    ELSE {<<>>} :
            LET restored == TransferRestore(sa_timeout, sa_chunk_size)
                del == IF r.done THEN Run(DeleteSteps(r.path), env, sa, restored.tmo)
                       ELSE [log |-> <<>>]
                cleanup == Cleanup(r, removed, del)
            IN /\ log' = r.log \o cleanup
               /\ ret' = Returned("do_capture", "None", CaptureReturn(r).val)
               /\ rx' = r.rx
               /\ remote' = (remote \cup Stored(r.log)) \ Deleted(cleanup)
               /\ sa_timeout' = restored.tmo
               /\ sa_chunk_size' = restored.chunk
    /\ UNCHANGED <<frag, timeout, rm, sa>>

NextWorkflow == DoCapture \/ Return

SpecWorkflow == InitCapture /\ [][NextWorkflow]_vars

\* a connected session with a block reply pending
InitBlock ==
    /\ rx \in Streams
    /\ frag \in Cuts
    /\ remote = {}
    /\ timeout = DefaultTimeout
    /\ rm = "open"
    /\ sa = "open"
    /\ sa_timeout = DefaultTimeout
    /\ sa_chunk_size = DefaultChunkSize
    /\ log = <<>>
    /\ ret = NoCall

NextBlock == ReadIeeeBlockCall \/ Return

SpecBlock == InitBlock /\ [][NextBlock]_vars

Next ==
    \/ Connect
    \/ Disconnect
    \/ SetCenterFrequency
    \/ GetCenterFrequency
    \/ SetSpan
    \/ GetSpan
    \/ SetRbw
    \/ GetRbw
    \/ SetRefLevel
    \/ GetRefLevel
    \/ SetTraceAverage
    \/ SetSanalyzer
    \/ GetCurrentHighPeak
    \/ GetCurrentLowPeak
    \/ GetBandPower
    \/ ReadObwidth
    \/ FetchTrace
    \/ DeleteRemoteFile
    \/ CaptureScreen
    \/ Return

Spec == Init /\ [][Next]_vars

(***************************************************************************)
(* Properties                                                              *)
(***************************************************************************)
LogIndices == 1..Len(log)
Failed(k) == ~log[k].ok

\* v is raw without its leading and trailing whitespace
IsTrimOf(v, raw) ==
    /\ v = <<>> \/ (v[1] \notin WS /\ v[Len(v)] \notin WS)
    /\ \E a \in 0..(Len(raw) - Len(v)) :
        /\ SubSeq(raw, a + 1, a + Len(v)) = v
        /\ \A k \in 1..Len(raw) : (k <= a \/ k > a + Len(v)) => raw[k] \in WS

\* the block a well-formed stream carries
BlockShapes == [n : 1..2, p : UNION {Payloads(L) : L \in 0..MaxPayload}, t : {<<>>, <<LF>>}]
ShapeOf(s) == CHOOSE b \in BlockShapes : s = Block(b.n, Len(b.p), b.p, b.t)

\* the cuts f leave the header read and the read of n length digits whole
HeaderWhole(f, n) ==
    /\ Len(f) >= 1 => (f[1] = 0 \/ f[1] >= 2)
    /\ Len(f) >= 2 => (f[2] = 0 \/ f[2] >= n)

\* C1: decoding a well-formed block returns exactly its payload bytes, in
\* order, however the transport cuts the payload reads
C1_DecodeReturnsPayload ==
    [][(Idle /\ ret'.op = "_read_ieee_block" /\ rx \in WellFormedStreams
            /\ HeaderWhole(frag, ShapeOf(rx).n))
        => (ret'.kind = "value" /\ ret'.val = ShapeOf(rx).p)]_vars

\* a block of the longest payload was decoded from short payload reads
C1_Witness ==
    /\ ret.op = "_read_ieee_block"
    /\ ret.kind = "value"
    /\ Len(ret.val) = MaxPayload
    /\ Len(log) >= 4
    /\ \E k \in 3..Len(log) : Len(log[k].resp) < log[k].arg

\* C2: a header whose first byte is not '#' is rejected as malformed, whatever
\* the second byte, and nothing after the header is read
C2_UnmarkedRejected ==
    (ret.op = "_read_ieee_block" /\ log # <<>> /\ log[1].ok
        /\ log[1].resp # <<>> /\ log[1].resp[1] # Hash)
    => (ret.kind = "raise" /\ ret.err = "MalformedBlock" /\ Len(log) = 1)

\* an unmarked header with a digit as second byte was rejected
C2_Witness ==
    /\ ret.op = "_read_ieee_block"
    /\ ret.err = "MalformedBlock"
    /\ Len(log) = 1
    /\ Len(log[1].resp) = 2
    /\ log[1].resp[1] = LetterA
    /\ IsDigit(log[1].resp[2])
    /\ rx # <<>>

\* the caller-facing protocol operations
ProtocolOps ==
    {"set_center_frequency", "get_center_frequency", "set_span", "get_span",
     "set_rbw", "get_rbw", "set_ref_level", "get_ref_level",
     "get_current_high_peak", "get_current_low_peak", "get_band_power",
     "read_obwidth", "fetch_trace", "capture_screen", "delete_remote_file"}

\* C3: every protocol operation called without a transport handle raises the
\* not-connected error
C3_NotConnectedFailsHard ==
    (ret.op \in ProtocolOps /\ sa = "None")
    => (ret.kind = "raise" /\ ret.err = "NotConnected")

WriteOps == {"set_center_frequency", "set_span", "set_rbw", "set_ref_level",
             "set_trace_average", "set_sanalyzer"}
QueryOps == {"get_center_frequency", "get_span", "get_rbw", "get_ref_level"}

\* C4: after disconnect() the transport handle is absent, and a write or
\* query made while no handle is open raises the not-connected error
C4_DisconnectClearsHandle ==
    /\ ret.op = "disconnect" => sa = "None"
    /\ (ret.op \in WriteOps \cup QueryOps /\ sa # "open")
            => (ret.kind = "raise" /\ ret.err = "NotConnected")

\* C5: connect() returns instead of raising; when one of its library calls
\* fails it returns False and the handle is absent; otherwise it returns True
\* and the handle is open with the configured timeout
C5_ConnectAllOrNothing ==
    ret.op = "connect" =>
        /\ ret.kind \in {"True", "False"}
        /\ (\E k \in LogIndices : Failed(k)) => (ret.kind = "False" /\ sa = "None")
        /\ (\A k \in LogIndices : ~Failed(k)) =>
                (ret.kind = "True" /\ sa = "open" /\ sa_timeout = timeout)

\* applying the timeout failed after the transport had been opened
C5_Witness ==
    /\ ret.op = "connect"
    /\ ret.kind = "False"
    /\ Len(log) = 3
    /\ Failed(3)
    /\ sa = "None"

\* C6: disconnect() returns normally in every session state and whichever
\* close call fails
C6_DisconnectNeverRaises ==
    ret.op = "disconnect" => ret.kind = "None"

\* a close call failed inside disconnect
C6_Witness ==
    /\ ret.op = "disconnect"
    /\ ret.kind = "None"
    /\ \E k \in LogIndices : Failed(k)

\* C7: without a handle, write and query raise not-connected and touch the
\* transport not at all; with a handle they make one transport write (query:
\* then one read, whose text is returned trimmed), and a transport error
\* reaches the caller without a second attempt
C7_WriteQueryOnce ==
    (ret.op \in WriteOps \cup QueryOps) =>
        IF sa = "None"
        THEN ret.kind = "raise" /\ ret.err = "NotConnected" /\ log = <<>>
        ELSE /\ Len(log) >= 1 /\ log[1].call = "write"
             /\ \A k \in 2..Len(log) : log[k].call # "write"
             /\ Len(log) <= (IF ret.op \in QueryOps /\ log[1].ok THEN 2 ELSE 1)
             /\ (ret.op \in QueryOps /\ log[1].ok) => (Len(log) = 2 /\ log[2].call = "read")
             /\ (\E k \in LogIndices : Failed(k))
                    <=> (ret.kind = "raise" /\ ret.err \in {"VisaIOError", "InvalidSession"})
             /\ (\A k \in LogIndices : ~Failed(k)) =>
                    IF ret.op \in QueryOps
                    THEN ret.kind = "value" /\ IsTrimOf(ret.val, log[2].resp)
                    ELSE ret.kind = "None"

\* a query returned a response that ended in whitespace
C7_Witness ==
    /\ ret.op = "get_span"
    /\ ret.kind = "value"
    /\ Len(log) = 2
    /\ log[2].resp = <<"7", "\n">>
    /\ ret.val = <<"7">>

\* C8: a connected call of get_band_power leaves the transport timeout as it
\* found it, whichever step failed
C8_BandPowerRestoresTimeout ==
    [][(Idle /\ sa = "open" /\ ret'.op = "get_band_power")
        => sa_timeout' = sa_timeout]_vars

\* get_band_power failed part-way under the overriding timeout
C8_Witness ==
    /\ ret.op = "get_band_power"
    /\ ret.kind = "None"
    /\ log # <<>>
    /\ Failed(Len(log))
    /\ log[Len(log)].tmo # sa_timeout

\* C9: the timeout in effect during the band-power sequence is above the
\* timeout before and after the call
C9_BandPowerRaisesTimeout ==
    (ret.op = "get_band_power" /\ log # <<>>)
    => \A k \in LogIndices : log[k].tmo > sa_timeout

\* the last call was a band power in which the BPOW select, and only it, failed
BpowFailedAlone ==
    /\ ret.op = "get_band_power"
    /\ \E k \in LogIndices : Failed(k)
    /\ \A k \in LogIndices : Failed(k) => log[k].cmd = "CALC:MARK:FUNC BPOW"

\* C10: when only the BPOW select fails, get_band_power still issues the
\* final marker query and returns its result
C10_BpowFailureTolerated ==
    BpowFailedAlone =>
        /\ log[Len(log)].call = "read"
        /\ log[Len(log)].cmd = "CALC:MARK1:Y?"
        /\ ret.kind = "value"
        /\ IsTrimOf(ret.val, log[Len(log)].resp)

\* the BPOW select timed out and a value came back
C10_Witness ==
    /\ BpowFailedAlone
    /\ ret.kind = "value"
    /\ ret.val = <<"7">>
    /\ \E k \in LogIndices : log[k].cmd = "CALC:MARK:FUNC BPOW" /\ log[k].call = "read"

MeasurementOps ==
    {"get_current_high_peak", "get_current_low_peak", "get_band_power", "read_obwidth"}

\* C11 as stated: with a live session, a measurement in which any write or
\* query failed returns None
C11_AnyFailureGivesNone ==
    (sa = "open" /\ ret.op \in MeasurementOps /\ \E k \in LogIndices : Failed(k))
    => ret.kind = "None"

\* C11: with a live session a measurement never raises, and it returns None
\* when a write or query other than the BPOW select of get_band_power failed
C11_FailureGivesNoneExceptBpow ==
    (sa = "open" /\ ret.op \in MeasurementOps)
    => /\ ret.kind \in {"value", "None"}
       /\ (\E k \in LogIndices : Failed(k) /\ log[k].cmd # "CALC:MARK:FUNC BPOW")
            => ret.kind = "None"

\* the final query of read_obwidth timed out on a live session
C11_Witness ==
    /\ sa = "open"
    /\ ret.op = "read_obwidth"
    /\ ret.kind = "None"
    /\ log # <<>>
    /\ log[Len(log)].cmd = ":READ:OBWidth?"
    /\ log[Len(log)].call = "read"
    /\ Failed(Len(log))

\* C12: the span read_obwidth sends is symbol rate * 1000 * spread factor *
\* (1 + roll-off) * 2 when all three inputs are given (18,900,000 Hz for
\* 1000 Ksps, 7 and 0.35) and 10,000,000 Hz when any one of them is absent
C12_ObwSpanSelection ==
    (ret.op = "read_obwidth" /\ log # <<>>)
    => LET sr == ret.args[1]
           sf == ret.args[2]
           ro == ret.args[3]
           sent == log[1].arg
       IN /\ log[1].call = "write"
          /\ log[1].cmd = ":SENSe:OBWidth:FREQ:SPAN"
          /\ (sr = NoArg \/ sf = NoArg \/ ro = NoArg) => sent = 10000000
          /\ (sr # NoArg /\ sf # NoArg /\ ro # NoArg)
                => sent * 100 = sr * 1000 * sf * 2 * 100 + sr * 1000 * sf * 2 * ro
          /\ ret.args = <<1000, 7, 35>> => sent = 18900000

\* read_obwidth was called with 1000 Ksps, spread factor 7 and roll-off 0.35
C12_Witness ==
    /\ ret.op = "read_obwidth"
    /\ ret.args = <<1000, 7, 35>>
    /\ log # <<>>
    /\ log[1].arg = 18900000

\* read_obwidth was called without a roll-off and sent the default span
C12_WitnessDefault ==
    /\ ret.op = "read_obwidth"
    /\ ret.args = <<1000, 7, NoArg>>
    /\ log # <<>>
    /\ log[1].arg = 10000000

\* the commands of capture_screen that carry a candidate path
CandidateCmds == {":MMEM:STOR:SCR", ":MMEM:CAT?", ":MMEM:DATA?"}

\* the store commands of the last call, in the order they were written
StoreLog == SelectSeq(log, LAMBDA e : e.cmd = ":MMEM:STOR:SCR")

\* the last call stored candidates 1..n, once each and in list order
StoresInOrder(n) ==
    /\ Len(StoreLog) = n
    /\ \A k \in 1..n : StoreLog[k].arg = k

\* the listing of candidate i came back without the file name
AbsentListing(i) ==
    \E k \in LogIndices :
        /\ log[k].call = "read"
        /\ log[k].cmd = ":MMEM:CAT?"
        /\ log[k].arg = i
        /\ log[k].ok
        /\ \A j \in 1..Len(log[k].resp) : log[k].resp[j] # RemoteName

\* the listing query of candidate i failed
FailedListing(i) ==
    \E k \in LogIndices : log[k].cmd = ":MMEM:CAT?" /\ log[k].arg = i /\ Failed(k)

\* the file-data command of candidate i was written
DataAsked(i) ==
    \E k \in LogIndices : log[k].cmd = ":MMEM:DATA?" /\ log[k].arg = i

\* the local file of the last call was written
FileWritten(k) == log[k].call = "file_write" /\ log[k].ok

\* the listings of all candidates but the last reported the file absent
AllButLastAbsent ==
    /\ ret.op = "capture_screen"
    /\ \A i \in 1..(NumAttempts - 1) : AbsentListing(i)

\* C13: when the listings of the first N-1 of N candidates report the file
\* absent, capture_screen stores exactly the N candidates in list order and
\* returns the Nth candidate's file if its transfer succeeds, else no file
\* with the last error observed
C13_AllCandidatesTried ==
    AllButLastAbsent =>
        /\ StoresInOrder(NumAttempts)
        /\ IF FileWritten(Len(log))
           THEN ret.kind = "value" /\ ret.val = <<LocalName, NumAttempts>>
           ELSE /\ ret.kind = "None"
                /\ ret.val = <<>>
                /\ IF Failed(Len(log))
                   THEN ret.err = IF log[Len(log)].call = "file_write"
                                  THEN "OSError" ELSE "VisaIOError"
                   ELSE IF AbsentListing(NumAttempts) THEN ret.err = ""
                   ELSE ret.err \in {"MalformedBlock", "IndexError", "ValueError"}

\* four candidates were absent and the transfer of the fifth timed out
C13_Witness ==
    /\ AllButLastAbsent
    /\ DataAsked(NumAttempts)
    /\ Failed(Len(log))
    /\ ret.kind = "None"
    /\ ret.err = "VisaIOError"

\* four candidates were absent and the fifth was transferred
C13_WitnessSuccess ==
    /\ AllButLastAbsent
    /\ FileWritten(Len(log))
    /\ ret.val = <<LocalName, NumAttempts>>

\* C14: candidates are tried in list order and the first one whose file is
\* transferred and written locally ends capture_screen: nothing is sent for
\* a later candidate, and the returned remote path is that candidate's
C14_StopsAtFirstSuccess ==
    (ret.op = "capture_screen" /\ \E k \in LogIndices : FileWritten(k))
    => /\ \A k \in LogIndices : FileWritten(k) => k = Len(log)
       /\ ret.kind = "value"
       /\ ret.val[1] = LocalName
       /\ StoresInOrder(ret.val[2])
       /\ DataAsked(ret.val[2])
       /\ \A k \in LogIndices :
            log[k].cmd \in CandidateCmds => log[k].arg <= ret.val[2]
       /\ \A j, k \in LogIndices :
            (j < k /\ log[j].cmd \in CandidateCmds /\ log[k].cmd \in CandidateCmds)
            => log[j].arg <= log[k].arg

\* the second of five candidates was transferred after the first failed
C14_Witness ==
    /\ ret.op = "capture_screen"
    /\ ret.kind = "value"
    /\ ret.val[2] = 2
    /\ FileWritten(Len(log))
    /\ Failed(1)

\* C15: on a connected session capture_screen leaves the timeout and the
\* chunk size of the handle as they were before the call, whatever happens
\* to its candidates
C15_CaptureRestoresSettings ==
    [][(Idle /\ sa = "open" /\ ret'.op = "capture_screen")
        => (sa_timeout' = sa_timeout /\ sa_chunk_size' = sa_chunk_size)]_vars

\* a transfer failed under the raised timeout and the settings are back
C15_Witness ==
    /\ ret.op = "capture_screen"
    /\ ret.kind = "None"
    /\ \E k \in LogIndices : Failed(k) /\ log[k].tmo = TransferTimeout
    /\ sa_timeout = DefaultTimeout
    /\ sa_chunk_size = DefaultChunkSize

\* C16: a listing that comes back without the file name sends no file-data
\* command for its candidate and moves to the next one; a listing query
\* that fails goes on to the transfer of the same candidate
C16_ListingCheck ==
    ret.op = "capture_screen" =>
        \A i \in RemotePaths :
            /\ AbsentListing(i) =>
                /\ ~DataAsked(i)
                /\ i < NumAttempts
                    => \E k \in LogIndices :
                         log[k].cmd = ":MMEM:STOR:SCR" /\ log[k].arg = i + 1
            /\ FailedListing(i) => DataAsked(i)

\* the listing of candidate 1 failed and that of candidate 2 lacked the file
C16_Witness ==
    /\ ret.op = "capture_screen"
    /\ FailedListing(1)
    /\ DataAsked(1)
    /\ AbsentListing(2)
    /\ ~DataAsked(2)

\* the answer the last call read to the query cmd
Answered(cmd) ==
    \E k \in LogIndices : log[k].call = "read" /\ log[k].cmd = cmd /\ log[k].ok
AnswerTo(cmd) ==
    log[CHOOSE k \in LogIndices : log[k].call = "read" /\ log[k].cmd = cmd].resp

\* the last call was a fetch_trace that returned its pair of sequences
TraceReturned == ret.op = "fetch_trace" /\ ret.kind = "value"

\* C17: fetch_trace returns a frequency axis and a sample sequence of the
\* same length N, the number of samples decoded, whatever point count the
\* instrument declared and also when the point-count query failed
C17_AxisMatchesSamples ==
    TraceReturned =>
        /\ Answered("TRAC:DATA?")
        /\ ret.val[2] = AnswerTo("TRAC:DATA?")
        /\ Len(ret.val[1]) = Len(AnswerTo("TRAC:DATA?"))

\* the instrument declared 7 points and 3 samples were decoded
C17_Witness ==
    /\ TraceReturned
    /\ Answered("SWE:POIN?")
    /\ AnswerTo("SWE:POIN?") = <<"7">>
    /\ Len(ret.val[2]) = 3
    /\ Len(ret.val[1]) = 3

\* the point-count query timed out and 5 samples were decoded
C17_WitnessNoCount ==
    /\ TraceReturned
    /\ ~Answered("SWE:POIN?")
    /\ Len(ret.val[1]) = 5

\* the value of a readback text
ReadbackValue(text) ==
    CASE text = <<"7">> -> 7
      [] text = <<"1", "e", "9">> -> 1000000000
      [] text = <<"2", "e", "6">> -> 2000000

\* the frequency f equals c + n/d
FreqEq(f, c, n, d) == (f.base - c) * f.den * d + f.num * d = n * f.den

\* a fetch_trace returned with both readbacks answered by a number
AxisFromReadbacks ==
    /\ TraceReturned
    /\ AnswerTo("FREQ:CENT?") # <<>>
    /\ AnswerTo("FREQ:SPAN?") # <<>>

ExampleAxis == <<999000000, 999500000, 1000000000, 1000500000, 1001000000>>

\* C18 as stated: for every N the axis runs from cf - span/2 to cf + span/2
\* in steps of span/(N-1)
C18_AxisEndToEnd ==
    AxisFromReadbacks =>
        LET freqs == ret.val[1]
            N == Len(freqs)
            cf == ReadbackValue(AnswerTo("FREQ:CENT?"))
            span == ReadbackValue(AnswerTo("FREQ:SPAN?"))
        IN /\ FreqEq(freqs[1], cf, -span, 2)
           /\ FreqEq(freqs[N], cf, span, 2)
           /\ \A i \in 1..N :
                FreqEq(freqs[i], cf, span * (2 * (i - 1) - (N - 1)), 2 * (N - 1))

\* C18: for N >= 2 decoded samples the axis is cf - span/2 + i*span/(N-1)
\* for i = 0..N-1, first element cf - span/2 and last cf + span/2 (for 1e9,
\* 2e6 and N = 5: 0.999e9, 0.9995e9, 1e9, 1.0005e9, 1.001e9); for N = 1 it
\* is the single element cf - span/2
C18_AxisLinear ==
    AxisFromReadbacks =>
        LET freqs == ret.val[1]
            N == Len(freqs)
            cf == ReadbackValue(AnswerTo("FREQ:CENT?"))
            span == ReadbackValue(AnswerTo("FREQ:SPAN?"))
        IN /\ FreqEq(freqs[1], cf, -span, 2)
           /\ N >= 2 =>
                /\ FreqEq(freqs[N], cf, span, 2)
                /\ \A i \in 1..N :
                     FreqEq(freqs[i], cf, span * (2 * (i - 1) - (N - 1)), 2 * (N - 1))
           /\ (cf = 1000000000 /\ span = 2000000 /\ N = 5) =>
                \A i \in 1..N : FreqEq(freqs[i], ExampleAxis[i], 0, 1)

\* five samples were fetched around 1 GHz with a span of 2 MHz
C18_Witness ==
    /\ AxisFromReadbacks
    /\ AnswerTo("FREQ:CENT?") = <<"1", "e", "9">>
    /\ AnswerTo("FREQ:SPAN?") = <<"2", "e", "6">>
    /\ Len(ret.val[1]) = 5
    /\ ret.val[1][2] = Freq(1000000000, -4000000, 8)

\* samples were decoded and a readback query of the last call failed
ReadbackFailed ==
    /\ ret.op = "fetch_trace"
    /\ Answered("TRAC:DATA?")
    /\ \E k \in LogIndices :
        log[k].cmd \in {"FREQ:CENT?", "FREQ:SPAN?"} /\ Failed(k)

\* C19: when the center-frequency or span readback fails or returns
\* nothing, fetch_trace still returns a trace, with 0 Hz and 1 Hz in place
\* of the missing values
C19_ReadbackDefaults ==
    /\ ReadbackFailed => TraceReturned
    /\ (TraceReturned /\ AnswerTo("FREQ:CENT?") = <<>> /\ AnswerTo("FREQ:SPAN?") # <<>>)
        => FreqEq(ret.val[1][1], 0, -ReadbackValue(AnswerTo("FREQ:SPAN?")), 2)
    /\ (TraceReturned /\ AnswerTo("FREQ:SPAN?") = <<>> /\ AnswerTo("FREQ:CENT?") # <<>>)
        => FreqEq(ret.val[1][1], ReadbackValue(AnswerTo("FREQ:CENT?")), -1, 2)

\* C20: delete_remote_file on a path the instrument holds no file under
\* (already deleted, or never stored) returns the failure result and does
\* not raise
C20_DeleteAbsentFails ==
    [][(Idle /\ ret'.op = "delete_remote_file" /\ ret'.args[1] \notin remote)
        => ret'.kind = "False"]_vars

\* the last call decoded a block up to its payload: the header and the
\* length digits were read and parsed
PayloadReached ==
    /\ ret.op = "_read_ieee_block"
    /\ Len(log) >= 2
    /\ log[2].ok
    /\ IsDecimal(log[2].resp)

\* bytes the payload reads up to log entry k delivered
RECURSIVE Accumulated(_)
Accumulated(k) == IF k <= 2 THEN 0 ELSE Accumulated(k - 1) + Len(log[k].resp)

\* C21: the payload loop ends exactly when the bytes accumulated reach the
\* declared total: a read that comes back short is followed by another
\* read, a block of length L is decoded in at most L payload reads, and a
\* declared length of 0 gives the empty payload without a payload read
C21_LoopEndsAtTotal ==
    PayloadReached =>
        LET total == DecimalValue(log[2].resp) IN
        /\ \A k \in 3..Len(log) :
            /\ Accumulated(k - 1) < total
            /\ log[k].arg = Min(MaxChunk, total - Accumulated(k - 1))
            /\ (log[k].ok /\ Accumulated(k) < total) => k < Len(log)
        /\ ret.kind = "value" <=> Accumulated(Len(log)) = total
        /\ ret.kind = "value" =>
            /\ Len(ret.val) = total
            /\ Len(log) - 2 <= total
        /\ ret.kind # "value" => (Failed(Len(log)) /\ ret.err = "VisaIOError")
        /\ total = 0 => (Len(log) = 2 /\ ret.val = <<>>)

\* a block of the longest payload was decoded one byte per read
C21_Witness ==
    /\ PayloadReached
    /\ ret.kind = "value"
    /\ Len(ret.val) = MaxPayload
    /\ Len(log) = 2 + MaxPayload
    /\ \A k \in 3..(Len(log) - 1) : Len(log[k].resp) < log[k].arg

\* a block that declares no payload was decoded without a payload read
C21_WitnessEmpty ==
    /\ PayloadReached
    /\ ret.kind = "value"
    /\ ret.val = <<>>
    /\ Len(log) = 2

\* the candidates the last call stored, and the log entries of candidate i:
\* from its store command up to the next store command
Attempted == {i \in RemotePaths : \E k \in LogIndices :
                  log[k].cmd = ":MMEM:STOR:SCR" /\ log[k].arg = i}
StoreIndex(i) == CHOOSE k \in LogIndices : log[k].cmd = ":MMEM:STOR:SCR" /\ log[k].arg = i
LastIndex(i) == IF i + 1 \in Attempted THEN StoreIndex(i + 1) - 1 ELSE Len(log)

\* the barrier response of a candidate was read at log entry j
BarrierRead(j) == log[j].call = "read" /\ log[j].cmd = "*OPC?" /\ log[j].ok

\* C22: for each candidate capture_screen attempts the commands go out in
\* the order store, barrier query with its response read, listing query,
\* file-data query; no listing or file-data query of a candidate precedes
\* the read of its barrier response, and a failed store or barrier leaves
\* out the listing and the file-data query of that candidate
C22_CandidateCommandOrder ==
    ret.op = "capture_screen" =>
        \A i \in Attempted :
            LET a == StoreIndex(i)
                b == LastIndex(i)
            IN /\ \A k \in LogIndices :
                    (log[k].cmd \in {":MMEM:CAT?", ":MMEM:DATA?"} /\ log[k].arg = i)
                    => /\ k \in (a + 1)..b
                       /\ \E j \in (a + 1)..(k - 1) : BarrierRead(j)
               /\ \A j, k \in a..b :
                    (log[j].cmd = ":MMEM:CAT?" /\ log[k].cmd = ":MMEM:DATA?") => j < k
               /\ \A j, k \in a..b :
                    (log[j].cmd = "*OPC?" /\ log[k].cmd \in {":MMEM:CAT?", ":MMEM:DATA?"})
                    => j < k
               /\ (\E j \in a..b : Failed(j) /\ log[j].cmd \in {":MMEM:STOR:SCR", "*OPC?"})
                    => Failed(b) /\ log[b].cmd \in {":MMEM:STOR:SCR", "*OPC?"}
                       /\ ~DataAsked(i)
                       /\ ~\E k \in LogIndices : log[k].cmd = ":MMEM:CAT?" /\ log[k].arg = i

\* the barrier of candidate 1 timed out and candidate 2 went through store,
\* barrier, listing and file-data query
C22_Witness ==
    /\ ret.op = "capture_screen"
    /\ Len(log) >= 9
    /\ log[1].cmd = ":MMEM:STOR:SCR" /\ log[1].ok
    /\ log[3].cmd = "*OPC?" /\ Failed(3)
    /\ log[4].cmd = ":MMEM:STOR:SCR" /\ log[4].arg = 2
    /\ BarrierRead(6)
    /\ log[8].cmd = ":MMEM:CAT?" /\ log[8].ok
    /\ log[9].cmd = ":MMEM:DATA?" /\ log[9].arg = 2

\* candidate i of the last call ended with its file written locally
Succeeded(i) == FileWritten(LastIndex(i))

\* C23: with a live session capture_screen lets no transport or decode
\* error of a candidate out: it goes on to the next candidate and returns
\* either (local path, remote path) or (None, None)
C23_CaptureNeverRaises ==
    (ret.op = "capture_screen" /\ sa = "open") =>
        /\ ret.kind \in {"value", "None"}
        /\ ret.kind = "value" =>
            /\ Len(ret.val) = 2
            /\ ret.val[1] = LocalName
            /\ ret.val[2] \in Attempted
            /\ Succeeded(ret.val[2])
        /\ ret.kind = "None" =>
            /\ ret.val = <<>>
            /\ Attempted = RemotePaths
        /\ \A i \in Attempted :
            (~Succeeded(i) /\ i < NumAttempts) => i + 1 \in Attempted

\* a decode error, a transport error and a failed store were passed over and
\* no file was returned
C23_Witness ==
    /\ ret.op = "capture_screen"
    /\ sa = "open"
    /\ ret.kind = "None"
    /\ Failed(1)
    /\ \E k \in LogIndices : log[k].call = "read_bytes" /\ Failed(k)
    /\ \E i \in Attempted :
        /\ DataAsked(i)
        /\ ~Failed(LastIndex(i))
        /\ log[LastIndex(i)].call = "read_bytes"

\* the commands of the band-power sequence, in order
BandPowerCmds ==
    << "CALC:MARK1:STAT ON", "CALC:MARK1:FUNC:BAND ON", "CALC:MARK1:FUNC?",
       "CALC:MARK1:FUNC:BAND:SPAN", "CALC:MARK1:FUNC:BAND:SPAN?",
       "CALC:MARK:FUNC BPOW", "CALC:MARK1:Y?" >>
StepOf(k) == CHOOSE n \in 1..Len(BandPowerCmds) : BandPowerCmds[n] = log[k].cmd

\* C24: in get_band_power a failure of any step other than the BPOW select
\* ends the sequence at that step: nothing more is sent and the result is
\* None
C24_OnlyBpowTolerated ==
    (ret.op = "get_band_power" /\ log # <<>>) =>
        /\ StepOf(1) = 1
        /\ \A k \in 1..(Len(log) - 1) : StepOf(k + 1) \in {StepOf(k), StepOf(k) + 1}
        /\ \A k \in LogIndices :
            (Failed(k) /\ log[k].cmd # "CALC:MARK:FUNC BPOW")
            => (k = Len(log) /\ ret.kind = "None")
        /\ \A k \in LogIndices :
            (Failed(k) /\ log[k].cmd = "CALC:MARK:FUNC BPOW")
            => (k < Len(log) /\ log[k + 1].cmd = "CALC:MARK1:Y?")

\* the span readback timed out: the sequence stopped there without a value
C24_Witness ==
    /\ ret.op = "get_band_power"
    /\ ret.kind = "None"
    /\ Len(log) = 7
    /\ log[7].cmd = "CALC:MARK1:FUNC:BAND:SPAN?"
    /\ log[7].call = "read"
    /\ Failed(7)

\* C25: after do_capture every screenshot a store command of the workflow
\* left on the instrument has had a delete command sent for its path, and
\* the local copy it wrote has been removed
C25_WorkflowCleansUp ==
    ret.op = "do_capture" =>
        /\ \A i \in Stored(log) :
            \E k \in LogIndices : log[k].cmd = ":MMEM:DEL" /\ log[k].arg = i
        /\ \A k \in LogIndices :
            FileWritten(k) =>
                \E j \in (k + 1)..Len(log) : log[j].call = "file_remove" /\ log[j].ok

\* the library call named call was made in lg and went through
LibCalled(lg, call) == \E k \in 1..Len(lg) : lg[k].call = call /\ lg[k].ok

\* C26: connect and disconnect leave no opened handle or resource manager
\* without a close: a connect on a connected session closes the handle it
\* replaces, a connect that fails after open_resource closes the handle it
\* drops, and after disconnect neither the handle nor the resource manager
\* of the session is open
C26_NoHandleLeftOpen ==
    [][Idle =>
        /\ (ret'.op = "connect" /\ sa = "open") => LibCalled(log', "sa.close")
        /\ (ret'.op = "connect" /\ ret'.kind = "False"
                /\ LibCalled(log', "open_resource"))
            => LibCalled(log', "sa.close")
        /\ ret'.op = "disconnect" => (sa' # "open" /\ rm' # "open")]_vars

\* the reply the instrument sends to the query read at log index k
ReplyTo(k) ==
    IF log[k].cmd = "*OPC?" THEN {Sample} ELSE {<<>>, <<RemoteName>>}

\* C27: inside capture_screen every query response is the reply to that
\* query: after a failed block transfer no later barrier or listing read
\* returns bytes of the reply that the transfer left unread
C27_ResponsesPaired ==
    ret.op = "capture_screen" =>
        \A k \in LogIndices :
            (log[k].call = "read" /\ log[k].ok) => log[k].resp \in ReplyTo(k)

====
